---- MODULE Spec2Model ----
(***************************************************************************)
(* Model of app.py: a Streamlit page that fetches a URL, extracts the      *)
(* visible text and the image URLs of the page (extract_content_from_url), *)
(* sends both to the Gemini API (call_gemini_api) and renders the result   *)
(* (main).                                                                 *)
(*                                                                         *)
(* Python strings are TLA+ strings; TLC evaluates Len, \o, Head, Tail and  *)
(* SubSeq on them.  Python lists are sequences.  A call that can raise is  *)
(* modelled by a record [raised, message, value].                          *)
(***************************************************************************)
EXTENDS Integers, Sequences, FiniteSets, TLC

VARIABLES
    gemini_api_key, \* app.py:6, the module-level credential ("" when absent)
    pc,             \* position of the script run inside main()
    url,            \* app.py:76, the content of the URL text input
    page,           \* what the GET of this run answered (environment)
    text,           \* app.py:81, first component of the extraction result
    images,         \* app.py:81, second component of the extraction result
    reply,          \* what the POST of this run answered (environment)
    prompt,         \* app.py:17, combined_input of this run ("" before)
    summary,        \* app.py:87, the value call_gemini_api returned
    calls,          \* the functions main() has called in this run, in order
    net,            \* the HTTP requests sent in this run, in order
    screen          \* the Streamlit elements rendered by this run, in order

vars == <<gemini_api_key, pc, url, page, text, images, reply, prompt,
          summary, calls, net, screen>>

(***************************************************************************)
(* Bounds of the model.                                                    *)
(***************************************************************************)
MaxNodes == 2        \* top-level nodes of a fetched page
MaxCandidates == 2   \* length of a "candidates" array in a reply

(***************************************************************************)
(* Python string methods.                                                  *)
(***************************************************************************)
StartsWith(s, p) == Len(s) >= Len(p) /\ SubSeq(s, 1, Len(p)) = p

\* str.find from position i (1-based); 0 when c does not occur
RECURSIVE Find(_, _, _)
Find(s, c, i) ==
    IF i + Len(c) - 1 > Len(s) THEN 0
    ELSE IF SubSeq(s, i, i + Len(c) - 1) = c THEN i
    ELSE Find(s, c, i + 1)

\* str.split(c): the piece before the occurrence at i, then the rest split
RECURSIVE Split(_, _)
SplitAt(s, c, i) ==
    IF i = 0 THEN <<s>>
    ELSE <<SubSeq(s, 1, i - 1)>> \o Split(SubSeq(s, i + Len(c), Len(s)), c)

Split(s, c) == SplitAt(s, c, Find(s, c, 1))

\* sep.join(strs)
RECURSIVE Join(_, _)
Join(strs, sep) ==
    IF Len(strs) = 0 THEN ""
    ELSE IF Len(strs) = 1 THEN strs[1]
    ELSE strs[1] \o sep \o Join(Tail(strs), sep)

\* the ASCII characters for which str.isspace() holds: \t \n \v \f \r,
\* U+001C to U+001F and the space (the strings of the model are ASCII)
Whitespace ==
    {" ", "\n", "\t", "\r", "\f", "", "", "", "", ""}

\* s.lstrip(cs), s.rstrip(cs), s.strip(cs)
RECURSIVE LStripChars(_, _)
LStripChars(s, cs) ==
    IF Len(s) > 0 /\ SubSeq(s, 1, 1) \in cs
    THEN LStripChars(SubSeq(s, 2, Len(s)), cs)
    ELSE s

RECURSIVE RStripChars(_, _)
RStripChars(s, cs) ==
    IF Len(s) > 0 /\ SubSeq(s, Len(s), Len(s)) \in cs
    THEN RStripChars(SubSeq(s, 1, Len(s) - 1), cs)
    ELSE s

StripChars(s, cs) == RStripChars(LStripChars(s, cs), cs)

\* str.lstrip(), str.rstrip()
LStrip(s) == LStripChars(s, Whitespace)
RStrip(s) == RStripChars(s, Whitespace)

\* str.strip()
Strip(s) == RStrip(LStrip(s))

Chars(s) == {SubSeq(s, i, i) : i \in 1..Len(s)}

\* s.replace(c, "") for every c of cs
RECURSIVE RemoveChars(_, _)
RemoveChars(s, cs) ==
    IF Len(s) = 0 THEN ""
    ELSE (IF SubSeq(s, 1, 1) \in cs THEN "" ELSE SubSeq(s, 1, 1))
         \o RemoveChars(SubSeq(s, 2, Len(s)), cs)

UpperLetters == "ABCDEFGHIJKLMNOPQRSTUVWXYZ"
LowerLetters == "abcdefghijklmnopqrstuvwxyz"

\* the lower case of c, i being the place of c in UpperLetters (0 if none)
LowerChar(c, i) == IF i = 0 THEN c ELSE SubSeq(LowerLetters, i, i)

\* str.lower(), on ASCII
RECURSIVE Lower(_)
Lower(s) ==
    IF Len(s) = 0 THEN ""
    ELSE LowerChar(SubSeq(s, 1, 1), Find(UpperLetters, SubSeq(s, 1, 1), 1))
         \o Lower(SubSeq(s, 2, Len(s)))

\* str.rfind of the character c at or before position i; 0 when absent
RECURSIVE RFind(_, _, _)
RFind(s, c, i) ==
    IF i < 1 THEN 0
    ELSE IF SubSeq(s, i, i) = c THEN i
    ELSE RFind(s, c, i - 1)

\* the first position at or after i of a character of cs; Len(s) + 1 if none
RECURSIVE FirstOf(_, _, _)
FirstOf(s, cs, i) ==
    IF i > Len(s) THEN Len(s) + 1
    ELSE IF SubSeq(s, i, i) \in cs THEN i
    ELSE FirstOf(s, cs, i + 1)

\* s.partition(c)[0] and s.partition(c)[2], i being s.find(c)
BeforeAt(s, i) == IF i = 0 THEN s ELSE SubSeq(s, 1, i - 1)
AfterAt(s, c, i) == IF i = 0 THEN "" ELSE SubSeq(s, i + Len(c), Len(s))
Before(s, c) == BeforeAt(s, Find(s, c, 1))
After(s, c) == AfterAt(s, c, Find(s, c, 1))

\* every character of s is in cs
AllIn(s, cs) == \A k \in 1..Len(s) : SubSeq(s, k, k) \in cs

\* the control characters U+0001 to U+001F, in order (U+0000 is left out:
\* no string of the model holds it)
C0Controls ==
    "" \o "\t\n" \o "" \o "\f\r"
    \o ""

HexDigit(n) == SubSeq("0123456789abcdef", n + 1, n + 1)

\* what repr() writes for the character c between quotes q, i being the
\* place of c in C0Controls (0 if none)
EscapeOf(c, q, i) ==
    IF c = "\\" THEN "\\\\"
    ELSE IF c = q THEN "\\" \o c
    ELSE IF c = "\t" THEN "\\t"
    ELSE IF c = "\n" THEN "\\n"
    ELSE IF c = "\r" THEN "\\r"
    ELSE IF i > 0 THEN "\\x" \o HexDigit(i \div 16) \o HexDigit(i % 16)
    ELSE IF c = "" THEN "\\x7f"
    ELSE c

RECURSIVE Escaped(_, _)
Escaped(s, q) ==
    IF Len(s) = 0 THEN ""
    ELSE EscapeOf(SubSeq(s, 1, 1), q, Find(C0Controls, SubSeq(s, 1, 1), 1))
         \o Escaped(SubSeq(s, 2, Len(s)), q)

\* repr(s), what {s!r} writes, on ASCII: double quotes only when s holds a
\* single quote and no double quote
Repr(s) ==
    IF Find(s, "'", 1) > 0 /\ Find(s, "\"", 1) = 0
    THEN "\"" \o Escaped(s, "\"") \o "\""
    ELSE "'" \o Escaped(s, "'") \o "'"

(***************************************************************************)
(* Results of calls that can raise.                                        *)
(***************************************************************************)
Return(v) == [raised |-> FALSE, message |-> "", value |-> v]
Raise(m) == [raised |-> TRUE, message |-> m, value |-> ""]

(***************************************************************************)
(* ipaddress.ip_address, as far as urlsplit needs it: whether a string is  *)
(* an IPv4 or an IPv6 address.                                             *)
(***************************************************************************)
Digits == Chars("0123456789")
HexChars == Chars("0123456789ABCDEFabcdef")

\* int(s, 10) of a string of digits
RECURSIVE DecimalValue(_, _)
DecimalValue(s, acc) ==
    IF Len(s) = 0 THEN acc
    ELSE DecimalValue(SubSeq(s, 2, Len(s)),
                      acc * 10 + (Find("0123456789", SubSeq(s, 1, 1), 1) - 1))

\* IPv4Address._parse_octet raises nothing
ValidOctet(o) ==
    /\ Len(o) \in 1..3
    /\ AllIn(o, Digits)
    /\ (o = "0" \/ SubSeq(o, 1, 1) # "0")
    /\ DecimalValue(o, 0) <= 255

ValidOctets(octets) ==
    /\ Len(octets) = 4
    /\ \A k \in 1..4 : ValidOctet(octets[k])

\* IPv4Address(a) raises nothing
IsIPv4(a) ==
    /\ Find(a, "/", 1) = 0
    /\ a # ""
    /\ ValidOctets(Split(a, "."))

\* IPv6Address._parse_hextet raises nothing
ValidHextet(h) == Len(h) \in 1..4 /\ AllIn(h, HexChars)

\* the interior places of parts that are empty: where a "::" stands
SkipIndexes(parts) == {i \in 2..(Len(parts) - 1) : parts[i] = ""}

\* the hextets before and after the "::" at place s; hi and lo are their
\* numbers before the empty endpoints are discounted
ValidSkipped(parts, hi, lo) ==
    /\ parts[1] = "" => hi = 1
    /\ parts[Len(parts)] = "" => lo = 1
    /\ 8 - ((IF parts[1] = "" THEN 0 ELSE hi)
            + (IF parts[Len(parts)] = "" THEN 0 ELSE lo)) >= 1
    /\ parts[1] # "" => \A k \in 1..hi : ValidHextet(parts[k])
    /\ parts[Len(parts)] # ""
          => \A k \in (Len(parts) - lo + 1)..Len(parts) : ValidHextet(parts[k])

\* the checks of IPv6Address._ip_int_from_string on the parts, skip being
\* the places of "::"
ValidParts(parts, skip) ==
    /\ Len(parts) <= 9
    /\ Cardinality(skip) <= 1
    /\ IF skip = {}
       THEN /\ Len(parts) = 8
            /\ \A k \in 1..8 : ValidHextet(parts[k])
       ELSE ValidSkipped(parts, (CHOOSE i \in skip : TRUE) - 1,
                         Len(parts) - (CHOOSE i \in skip : TRUE))

\* an IPv4 suffix is replaced by the two hextets of its value (here two
\* hextets "0": only their validity counts)
WithoutIPv4(parts) ==
    IF Find(parts[Len(parts)], ".", 1) > 0
    THEN SubSeq(parts, 1, Len(parts) - 1) \o <<"0", "0">>
    ELSE parts

ValidIPv6Parts(parts) ==
    /\ Len(parts) >= 3
    /\ Find(parts[Len(parts)], ".", 1) > 0 => IsIPv4(parts[Len(parts)])
    /\ ValidParts(WithoutIPv4(parts), SkipIndexes(WithoutIPv4(parts)))

\* IPv6Address._split_scope_id raises nothing: a "%" is followed by a scope
\* id without "%"
ValidScope(a, i) ==
    i > 0 => (i < Len(a) /\ Find(a, "%", i + 1) = 0)

\* IPv6Address(a) raises nothing
IsIPv6(a) ==
    /\ Find(a, "/", 1) = 0
    /\ ValidScope(a, Find(a, "%", 1))
    /\ Before(a, "%") # ""
    /\ ValidIPv6Parts(Split(Before(a, "%"), ":"))

(***************************************************************************)
(* urllib.parse.urljoin, which requests.compat.urljoin is (app.py:64), as  *)
(* of CPython 3.11.  The strings are ASCII: _checknetloc, which looks at   *)
(* the other characters of a netloc, does nothing.                         *)
(***************************************************************************)
AsciiLetters == Chars("abcdefghijklmnopqrstuvwxyzABCDEFGHIJKLMNOPQRSTUVWXYZ")
SchemeChars == AsciiLetters \cup Chars("0123456789+-.")

uses_relative ==
    {"", "ftp", "http", "gopher", "nntp", "imap", "wais", "file", "https",
     "shttp", "mms", "prospero", "rtsp", "rtsps", "rtspu", "sftp", "svn",
     "svn+ssh", "ws", "wss"}

uses_netloc ==
    {"", "ftp", "http", "gopher", "nntp", "telnet", "imap", "wais", "file",
     "mms", "https", "shttp", "snews", "prospero", "rtsp", "rtsps", "rtspu",
     "rsync", "svn", "svn+ssh", "sftp", "nfs", "git", "git+ssh", "ws", "wss"}

uses_params ==
    {"", "ftp", "hdl", "prospero", "http", "imap", "https", "shttp", "rtsp",
     "rtsps", "rtspu", "sip", "sips", "mms", "sftp", "tel"}

\* _WHATWG_C0_CONTROL_OR_SPACE and _UNSAFE_URL_BYTES_TO_REMOVE
C0ControlOrSpace == Chars(C0Controls) \cup {" "}
UnsafeUrlBytes == {"\t", "\r", "\n"}

\* re.match(r"\Av[a-fA-F0-9]+\..+\Z", h), d being the place of the first "."
IPvFutureAt(h, d) ==
    /\ StartsWith(h, "v")
    /\ d >= 3
    /\ AllIn(SubSeq(h, 2, d - 1), HexChars)
    /\ d < Len(h)
    /\ Find(h, "\n", d + 1) = 0

IPvFuture(h) == IPvFutureAt(h, Find(h, ".", 1))

\* _check_bracketed_host(h)
check_bracketed_host(h) ==
    IF StartsWith(h, "v")
    THEN (IF IPvFuture(h) THEN Return("")
          ELSE Raise("IPvFuture address is invalid"))
    ELSE IF IsIPv4(h) THEN Raise("An IPv4 address cannot be in brackets")
    ELSE IF IsIPv6(h) THEN Return("")
    ELSE Raise(Repr(h) \o " does not appear to be an IPv4 or IPv6 address")

\* urlsplit, last step: the fragment, then the query, are split off the rest
SplitQuery(sch, netloc, rest, fragment) ==
    Return([scheme |-> sch, netloc |-> netloc, path |-> Before(rest, "?"),
            query |-> After(rest, "?"), fragment |-> fragment])

SplitRest(sch, netloc, rest) ==
    SplitQuery(sch, netloc, Before(rest, "#"), After(rest, "#"))

\* urlsplit: the outcome of the check of the bracketed host
CheckedHost(sch, netloc, rest, checked) ==
    IF checked.raised THEN checked ELSE SplitRest(sch, netloc, rest)

\* netloc.partition('[')[2].partition(']')[0]
BracketedHost(netloc) == Before(After(netloc, "["), "]")

\* urlsplit: the bracket checks on the netloc
CheckNetloc(sch, netloc, rest) ==
    IF (Find(netloc, "[", 1) > 0) # (Find(netloc, "]", 1) > 0)
    THEN Raise("Invalid IPv6 URL")
    ELSE IF Find(netloc, "[", 1) > 0
    THEN CheckedHost(sch, netloc, rest,
                     check_bracketed_host(BracketedHost(netloc)))
    ELSE SplitRest(sch, netloc, rest)

\* _splitnetloc(url, 2): the netloc runs from after "//" to the first of
\* "/", "?" and "#" (at j, past the end if none)
SplitAuthority(sch, rest, j) ==
    CheckNetloc(sch, SubSeq(rest, 3, j - 1), SubSeq(rest, j, Len(rest)))

\* urlsplit: a netloc is present when the rest starts with "//"
SplitNetloc(sch, rest) ==
    IF StartsWith(rest, "//")
    THEN SplitAuthority(sch, rest, FirstOf(rest, {"/", "?", "#"}, 3))
    ELSE SplitRest(sch, "", rest)

\* urlsplit: what precedes the first ":" (at i) is the scheme, lowercased,
\* when it starts with a letter and is made of scheme characters
SplitScheme(u, scheme, i) ==
    IF /\ i > 1
       /\ SubSeq(u, 1, 1) \in AsciiLetters
       /\ AllIn(SubSeq(u, 1, i - 1), SchemeChars)
    THEN SplitNetloc(Lower(SubSeq(u, 1, i - 1)), SubSeq(u, i + 1, Len(u)))
    ELSE SplitNetloc(scheme, u)

\* urlsplit, on the cleaned url and scheme
SplitClean(u, scheme) == SplitScheme(u, scheme, Find(u, ":", 1))

\* urlsplit(u, scheme): [scheme, netloc, path, query, fragment], or
\* ValueError.  Leading controls and spaces are stripped, \t \r \n removed.
urlsplit(u, scheme) ==
    SplitClean(RemoveChars(LStripChars(u, C0ControlOrSpace), UnsafeUrlBytes),
               RemoveChars(StripChars(scheme, C0ControlOrSpace), UnsafeUrlBytes))

\* _splitparams(path), i being the place of the ";" that starts the params
SplitParamsAt(v, i) ==
    [scheme |-> v.scheme, netloc |-> v.netloc,
     path |-> IF i = 0 THEN v.path ELSE SubSeq(v.path, 1, i - 1),
     params |-> IF i = 0 THEN "" ELSE SubSeq(v.path, i + 1, Len(v.path)),
     query |-> v.query, fragment |-> v.fragment]

\* urlparse: the params are split off the last segment of the path
SplitParams(v) ==
    IF v.scheme \in uses_params /\ Find(v.path, ";", 1) > 0
    THEN SplitParamsAt(v,
             IF Find(v.path, "/", 1) > 0
             THEN Find(v.path, ";", RFind(v.path, "/", Len(v.path)))
             ELSE Find(v.path, ";", 1))
    ELSE SplitParamsAt(v, 0)

ParseSplit(r) == IF r.raised THEN r ELSE Return(SplitParams(r.value))

\* urlparse(u, scheme): [scheme, netloc, path, params, query, fragment]
urlparse(u, scheme) == ParseSplit(urlsplit(u, scheme))

AddScheme(scheme, rest) == IF scheme # "" THEN scheme \o ":" \o rest ELSE rest
AddQuery(rest, query) == IF query # "" THEN rest \o "?" \o query ELSE rest
AddFragment(rest, fragment) ==
    IF fragment # "" THEN rest \o "#" \o fragment ELSE rest

urlunsplit(scheme, netloc, path, query, fragment) ==
    AddFragment(AddQuery(AddScheme(scheme,
        IF netloc # "" \/ (scheme # "" /\ scheme \in uses_netloc
                            /\ ~StartsWith(path, "//"))
        THEN "//" \o netloc \o
             (IF path # "" /\ ~StartsWith(path, "/") THEN "/" ELSE "") \o path
        ELSE path), query), fragment)

urlunparse(scheme, netloc, path, params, query, fragment) ==
    urlunsplit(scheme, netloc,
               IF params # "" THEN path \o ";" \o params ELSE path,
               query, fragment)

\* segments[1:-1] = filter(None, segments[1:-1])
FilterInterior(segments) ==
    IF Len(segments) <= 2 THEN segments
    ELSE <<segments[1]>>
         \o SelectSeq(SubSeq(segments, 2, Len(segments) - 1), LAMBDA g : g # "")
         \o <<segments[Len(segments)]>>

\* the loop over segments that resolves "." and ".."
RECURSIVE RemoveDots(_, _)
RemoveDots(segments, resolved) ==
    IF Len(segments) = 0 THEN resolved
    ELSE IF Head(segments) = ".."
    THEN RemoveDots(Tail(segments),
                    IF Len(resolved) = 0 THEN resolved
                    ELSE SubSeq(resolved, 1, Len(resolved) - 1))
    ELSE IF Head(segments) = "." THEN RemoveDots(Tail(segments), resolved)
    ELSE RemoveDots(Tail(segments), Append(resolved, Head(segments)))

\* base_parts = bpath.split('/'); if base_parts[-1] != '': del base_parts[-1]
BaseParts(parts) ==
    IF parts[Len(parts)] # "" THEN SubSeq(parts, 1, Len(parts) - 1) ELSE parts

\* if segments[-1] in ('.', '..'): resolved_path.append('')
ResolvedPath(segments, dotless) ==
    IF segments[Len(segments)] \in {".", ".."} THEN Append(dotless, "")
    ELSE dotless

\* '/'.join(resolved_path) or '/'
PathOf(joined) == IF joined = "" THEN "/" ELSE joined

\* urljoin: the dots of the merged segments are resolved
JoinSegments(r, netloc, segments) ==
    Return(urlunparse(r.scheme, netloc,
        PathOf(Join(ResolvedPath(segments, RemoveDots(segments, <<>>)), "/")),
        r.params, r.query, r.fragment))

\* urljoin: without a path and params the base's are taken, and its query
\* when there is none; a relative path is appended to the base path without
\* its last segment, an absolute one replaces it
JoinPath(b, r, netloc) ==
    IF r.path = "" /\ r.params = ""
    THEN Return(urlunparse(r.scheme, netloc, b.path, b.params,
                           IF r.query = "" THEN b.query ELSE r.query,
                           r.fragment))
    ELSE JoinSegments(r, netloc,
            IF StartsWith(r.path, "/") THEN Split(r.path, "/")
            ELSE FilterInterior(BaseParts(Split(b.path, "/"))
                                \o Split(r.path, "/")))

\* urljoin, with base parsed into b and u parsed into r
JoinSplit(u, b, r) ==
    IF r.scheme # b.scheme \/ r.scheme \notin uses_relative THEN Return(u)
    ELSE IF r.scheme \in uses_netloc /\ r.netloc # ""
    THEN Return(urlunparse(r.scheme, r.netloc, r.path, r.params, r.query,
                           r.fragment))
    ELSE JoinPath(b, r, IF r.scheme \in uses_netloc THEN b.netloc ELSE r.netloc)

\* urljoin: u is parsed with the scheme of the base as its default
JoinWith(u, b, r) == IF r.raised THEN r ELSE JoinSplit(u, b, r.value)
JoinBase(u, b) ==
    IF b.raised THEN b ELSE JoinWith(u, b.value, urlparse(u, b.value.scheme))

urljoin(base, u) ==
    IF base = "" THEN Return(u)
    ELSE IF u = "" THEN Return(base)
    ELSE JoinBase(u, urlparse(base, ""))

(***************************************************************************)
(* The parsed page.  BeautifulSoup(response.content, 'html.parser') is the *)
(* library's; the model starts from the tree it builds.  A node is a text  *)
(* node (name "#text") or an element; an element carries its children and, *)
(* when it has one, its src attribute.                                      *)
(***************************************************************************)
TextNode(s) ==
    [name |-> "#text", string |-> s, has_src |-> FALSE, src |-> "",
     contents |-> <<>>]
Element(n, kids) ==
    [name |-> n, string |-> "", has_src |-> FALSE, src |-> "", contents |-> kids]
Img(s) ==
    [name |-> "img", string |-> "", has_src |-> TRUE, src |-> s, contents |-> <<>>]
ImgNoSrc == Element("img", <<>>)

\* for tag in soup(names): tag.decompose()
RECURSIVE Decompose(_, _)
Decompose(nodes, names) ==
    IF Len(nodes) = 0 THEN <<>>
    ELSE (IF Head(nodes).name \in names THEN <<>>
          ELSE <<[Head(nodes) EXCEPT
                    !.contents = Decompose(Head(nodes).contents, names)]>>)
         \o Decompose(Tail(nodes), names)

\* soup.strings: the text nodes of the tree, in document order
RECURSIVE Strings(_)
Strings(nodes) ==
    IF Len(nodes) = 0 THEN <<>>
    ELSE (IF Head(nodes).name = "#text" THEN <<Head(nodes).string>>
          ELSE Strings(Head(nodes).contents))
         \o Strings(Tail(nodes))

\* keeps the strings that are not empty once stripped
RECURSIVE StripAll(_)
StripAll(strs) ==
    IF Len(strs) = 0 THEN <<>>
    ELSE (IF Strip(Head(strs)) = "" THEN <<>> ELSE <<Strip(Head(strs))>>)
         \o StripAll(Tail(strs))

\* soup.stripped_strings
stripped_strings(nodes) == StripAll(Strings(nodes))

\* soup.find_all(n): the elements named n, in document order
RECURSIVE find_all(_, _)
find_all(nodes, n) ==
    IF Len(nodes) = 0 THEN <<>>
    ELSE (IF Head(nodes).name = n THEN <<Head(nodes)>> ELSE <<>>)
         \o find_all(Head(nodes).contents, n) \o find_all(Tail(nodes), n)

(***************************************************************************)
(* extract_content_from_url (app.py:46-69).  resp is what requests.get     *)
(* does: it raises, or it returns a response with a status, the final URL  *)
(* and a body.                                                             *)
(***************************************************************************)
\* response.raise_for_status(): HTTPError for 4xx and 5xx, nothing else
raise_for_status(resp) ==
    IF 400 <= resp.status_code /\ resp.status_code < 500
    THEN Raise(ToString(resp.status_code) \o " Client Error: " \o resp.reason
               \o " for url: " \o resp.url)
    ELSE IF 500 <= resp.status_code /\ resp.status_code < 600
    THEN Raise(ToString(resp.status_code) \o " Server Error: " \o resp.reason
               \o " for url: " \o resp.url)
    ELSE Return("")

\* absolute_url = requests.compat.urljoin(url, src)
AbsoluteUrl(u, src) == urljoin(u, src)

\* a loop that appends a URL only when it is not in the list yet
RECURSIVE CollectImages_Dedup(_, _, _)
CollectDedup(imgs, u, acc, a) ==
    IF a.raised THEN [raised |-> TRUE, message |-> a.message, value |-> acc]
    ELSE CollectImages_Dedup(Tail(imgs), u,
             IF \E k \in 1..Len(acc) : acc[k] = a.value THEN acc
             ELSE Append(acc, a.value))
CollectImages_Dedup(imgs, u, acc) ==
    IF Len(imgs) = 0 THEN Return(acc)
    ELSE IF Head(imgs).has_src /\ Head(imgs).src # ""
    THEN CollectDedup(imgs, u, acc, urljoin(u, Head(imgs).src))
    ELSE CollectImages_Dedup(Tail(imgs), u, acc)

\* the loop of lines 61-65; value holds the images collected so far
RECURSIVE CollectImages(_, _, _)

\* images.append(absolute_url), unless urljoin raised
AppendImage(imgs, u, acc, a) ==
    IF a.raised THEN [raised |-> TRUE, message |-> a.message, value |-> acc]
    ELSE CollectImages(Tail(imgs), u, Append(acc, a.value))

CollectImages(imgs, u, acc) ==
    IF Len(imgs) = 0 THEN Return(acc)
    ELSE IF Head(imgs).has_src /\ Head(imgs).src # ""
    THEN AppendImage(imgs, u, acc, AbsoluteUrl(u, Head(imgs).src))
    ELSE CollectImages(Tail(imgs), u, acc)

\* a handler that returns the images collected before the exception
ExtractionError_KeepImages(message, collected) ==
    [text |-> "Error: " \o message, images |-> collected]

\* except Exception as e: return f"Error: {str(e)}", []
ExtractionError(message, collected) ==
    [text |-> "Error: " \o message, images |-> <<>>]

\* a removal that forgets the style elements
RemovedTags_ScriptOnly == {"script"}

\* the tag names removed before the text is collected
RemovedTags == {"script", "style"}

\* text = " ".join(soup.stripped_strings)
VisibleText(soup) == Join(stripped_strings(soup), " ")

\* return text, images; or the except clause when the loop raised
PageResult(t, imgs) ==
    IF imgs.raised THEN ExtractionError(imgs.message, imgs.value)
    ELSE [text |-> t, images |-> imgs.value]

\* lines 58-67, on the soup without its script and style elements
ParsePage(u, soup) ==
    PageResult(VisibleText(soup), CollectImages(find_all(soup, "img"), u, <<>>))

\* lines 52-67, st being the outcome of raise_for_status
ParseResponse(u, resp, st) ==
    IF st.raised THEN ExtractionError(st.message, <<>>)
    ELSE ParsePage(u, Decompose(resp.content, RemovedTags))

extract_content_from_url(u, resp) ==
    IF resp.raised THEN ExtractionError(resp.message, <<>>)
    ELSE ParseResponse(u, resp, raise_for_status(resp))

(***************************************************************************)
(* Python values: what response.json() returns and what call_gemini_api    *)
(* returns.  A dict is a function from its keys to values.                 *)
(***************************************************************************)
PyNone == [type |-> "NoneType"]
PyInt(n) == [type |-> "int", num |-> n]
PyStr(s) == [type |-> "str", str |-> s]
PyList(xs) == [type |-> "list", items |-> xs]
PyDict(f) == [type |-> "dict", fields |-> f]
EmptyDict == PyDict([k \in {} |-> PyNone])

\* response.json() of a response whose body is not JSON
JsonError(m) == [raised |-> TRUE, message |-> m, value |-> PyNone]

\* bool(v)
Truthy(v) ==
    CASE v.type = "NoneType" -> FALSE
      [] v.type = "int" -> v.num # 0
      [] v.type = "str" -> v.str # ""
      [] v.type = "list" -> Len(v.items) > 0
      [] v.type = "dict" -> DOMAIN v.fields # {}

\* key in v, for a str key
Contains(key, v) ==
    CASE v.type = "dict" -> Return(key \in DOMAIN v.fields)
      [] v.type = "list" ->
            Return(\E k \in 1..Len(v.items) : v.items[k] = PyStr(key))
      [] v.type = "str" -> Return(Find(v.str, key, 1) > 0)
      [] OTHER ->
            Raise("argument of type '" \o v.type \o "' is not iterable")

\* v[key], for a str key (the messages are those of CPython 3.11 and later)
GetKey(v, key) ==
    CASE v.type = "dict" ->
            IF key \in DOMAIN v.fields THEN Return(v.fields[key])
            ELSE Raise("'" \o key \o "'")
      [] v.type = "list" ->
            Raise("list indices must be integers or slices, not str")
      [] v.type = "str" -> Raise("string indices must be integers, not 'str'")
      [] OTHER -> Raise("'" \o v.type \o "' object is not subscriptable")

\* v[i], for an int i >= 0 (the keys of a JSON object are strings)
GetIndex(v, i) ==
    CASE v.type = "dict" -> Raise(ToString(i))
      [] v.type = "list" ->
            IF i < Len(v.items) THEN Return(v.items[i + 1])
            ELSE Raise("list index out of range")
      [] v.type = "str" ->
            IF i < Len(v.str) THEN Return(PyStr(SubSeq(v.str, i + 1, i + 1)))
            ELSE Raise("string index out of range")
      [] OTHER -> Raise("'" \o v.type \o "' object is not subscriptable")

\* a subscript applied to the result of a subscript: the first raise wins
ThenKey(r, key) == IF r.raised THEN r ELSE GetKey(r.value, key)
ThenIndex(r, i) == IF r.raised THEN r ELSE GetIndex(r.value, i)

(***************************************************************************)
(* call_gemini_api (app.py:8-43).  out is what requests.post does.         *)
(***************************************************************************)
KeyNotFound == "Gemini API key not found. Please check your config.toml file."
NoSummary == "No summary returned from Gemini API."

gemini_url ==
    "https://generativelanguage.googleapis.com/v1beta/models/"
    \o "gemini-2.0-flash:generateContent?key=" \o gemini_api_key

\* a join without the "None" fallback
ImagesLine_NoNone(imgs) == Join(imgs, ", ")

\* (', '.join(images) if images else "None")
ImagesLine(imgs) == IF Len(imgs) > 0 THEN Join(imgs, ", ") ELSE "None"

\* combined_input
CombinedInput(t, imgs) ==
    "Web Page Content:\n" \o t \o "\n\nImages:\n" \o ImagesLine(imgs)
    \o "\n\nPlease provide a brief summary of the above content."

\* a handler that reuses the extractor's prefix
GeminiError_ExtractorPrefix(message) == PyStr("Error: " \o message)

\* except Exception as e: return f"Error calling Gemini API: {str(e)}"
GeminiError(message) == PyStr("Error calling Gemini API: " \o message)

\* a lookup that reads the last candidate instead of the first
CandidateText_Last(data) ==
    LET c == GetKey(data, "candidates")
        last == IF ~c.raised /\ c.value.type = "list"
                THEN Len(c.value.items) - 1 ELSE 0
    IN  ThenKey(ThenIndex(ThenKey(ThenKey(ThenIndex(c, last),
            "content"), "parts"), 0), "text")

\* data["candidates"][0]["content"]["parts"][0]["text"]
CandidateText(data) ==
    ThenKey(ThenIndex(ThenKey(ThenKey(
        ThenIndex(GetKey(data, "candidates"), 0),
        "content"), "parts"), 0), "text")

\* data["candidates"], tested for truth
CandidatesTruthy(c) == IF c.raised THEN c ELSE Return(Truthy(c.value))

\* if "candidates" in data and data["candidates"]; has is the outcome of "in"
HasCandidatesIn(data, has) ==
    IF has.raised \/ ~has.value THEN has
    ELSE CandidatesTruthy(GetKey(data, "candidates"))

HasCandidates(data) == HasCandidatesIn(data, Contains("candidates", data))

\* return data["candidates"][0]["content"]["parts"][0]["text"]
ReturnText(t) == IF t.raised THEN GeminiError(t.message) ELSE t.value

\* lines 38-41, has being the outcome of the condition
SummaryFrom(data, has) ==
    IF has.raised THEN GeminiError(has.message)
    ELSE IF has.value THEN ReturnText(CandidateText(data))
    ELSE PyStr(NoSummary)

\* lines 35-41, st being the outcome of raise_for_status
SummaryOfResponse(out, st) ==
    IF st.raised THEN GeminiError(st.message)
    ELSE IF out.json.raised THEN GeminiError(out.json.message)
    ELSE SummaryFrom(out.json.value, HasCandidates(out.json.value))

\* the try block, lines 33-43
SummaryOf(out) ==
    IF out.raised THEN GeminiError(out.message)
    ELSE SummaryOfResponse(out, raise_for_status(out))

PostTimeout == 30

\* the request h of requests.post(gemini_url, json=payload, timeout=30): a
\* redirect followed with a GET carries no body
PostRequest(h, t, imgs) ==
    [method |-> h.method, url |-> h.url, timeout |-> PostTimeout,
     body |-> IF h.method = "POST" THEN CombinedInput(t, imgs) ELSE "",
     after |-> h.after]

\* a call that never checks the credential
KeyMissing_Unchecked == FALSE

\* if not gemini_api_key: return ...
KeyMissing == gemini_api_key = ""

call_gemini_api(t, imgs, out) ==
    IF KeyMissing
    THEN [value |-> PyStr(KeyNotFound), requests |-> <<>>]
    ELSE [value |-> SummaryOf(out),
          requests |-> [k \in 1..Len(out.sent)
                           |-> PostRequest(out.sent[k], t, imgs)]]

(***************************************************************************)
(* requests.get(url, timeout=10) (app.py:51), as of requests 2.31 with     *)
(* urllib3 1.26: PreparedRequest.prepare_url, the parse_url of urllib3     *)
(* that it calls, and Session.get_adapter.  The URLs are made of letters,  *)
(* digits and the characters -._~:/?#[]@!$&'()*+,;= with "[" and "]" only  *)
(* in the host, at most one "@" before the host and at most one "#":       *)
(* characters that requests sends as they are, so that                     *)
(* _encode_invalid_chars and requote_uri change nothing.                   *)
(***************************************************************************)
\* urllib3's _remove_path_dot_segments: its loop is the one of urljoin; then
\* if path.startswith("/") and (not output or output[0]): output.insert(0, "")
\* if path.endswith(("/.", "/..")): output.append("")
remove_path_dot_segments(path) ==
    LET output == RemoveDots(Split(path, "/"), <<>>) IN
    Join((IF StartsWith(path, "/") /\ (Len(output) = 0 \/ output[1] # "")
          THEN <<"">> ELSE <<>>)
         \o output
         \o (IF \/ Len(path) >= 2 /\ SubSeq(path, Len(path) - 1, Len(path)) = "/."
                \/ Len(path) >= 3 /\ SubSeq(path, Len(path) - 2, Len(path)) = "/.."
             THEN <<"">> ELSE <<>>), "/")

\* SCHEME_RE and the scheme of URI_RE: a letter, then letters, digits, "+"
\* and "-", before the first ":" (at i)
HasScheme(u, i) ==
    /\ i > 1
    /\ SubSeq(u, 1, 1) \in AsciiLetters
    /\ AllIn(SubSeq(u, 1, i - 1), AsciiLetters \cup Chars("0123456789+-"))

\* IPV4_PAT: four runs of one to three digits
IPV4_PAT(a) ==
    LET runs == Split(a, ".") IN
    /\ Len(runs) = 4
    /\ \A k \in 1..4 : Len(runs[k]) \in 1..3 /\ AllIn(runs[k], Digits)

\* IPV6_PAT, on the parts between the colons: the grammar of RFC 3986, an
\* IPv4 suffix standing for two groups
IPV6_PAT(a) ==
    LET parts == Split(a, ":") IN
    /\ Len(parts) >= 3
    /\ Find(parts[Len(parts)], ".", 1) > 0 => IPV4_PAT(parts[Len(parts)])
    /\ ValidParts(WithoutIPv4(parts), SkipIndexes(WithoutIPv4(parts)))

\* (?:[chars]|%[a-fA-F0-9]{2})* where the chars are those of cs (member) or
\* those outside cs (~member)
RECURSIVE PercentEncoded(_, _, _)
PercentEncoded(s, cs, member) ==
    IF Len(s) = 0 THEN TRUE
    ELSE IF SubSeq(s, 1, 1) = "%"
    THEN /\ Len(s) >= 3
         /\ AllIn(SubSeq(s, 2, 3), HexChars)
         /\ PercentEncoded(SubSeq(s, 4, Len(s)), cs, member)
    ELSE /\ (SubSeq(s, 1, 1) \in cs) = member
         /\ PercentEncoded(SubSeq(s, 2, Len(s)), cs, member)

\* REG_NAME_PAT
REG_NAME_PAT(h) == PercentEncoded(h, Chars("[]%:/?#"), FALSE)

\* ZONE_ID_PAT, z being what follows the "%"
ZONE_ID_PAT(z) ==
    LET UNRESERVED_CHARS == AsciiLetters \cup Chars("0123456789._-~") IN
    \/ z # "" /\ PercentEncoded(z, UNRESERVED_CHARS, TRUE)
    \/ /\ StartsWith(z, "25")
       /\ Len(z) > 2
       /\ PercentEncoded(SubSeq(z, 3, Len(z)), UNRESERVED_CHARS, TRUE)

\* IPV6_ADDRZ_PAT on what stands between the brackets, i being the place of
\* the first "%"
IPv6AddrZ(a, i) ==
    /\ IPV6_PAT(BeforeAt(a, i))
    /\ i > 0 => ZONE_ID_PAT(SubSeq(a, i + 1, Len(a)))

\* a host followed by rest: nothing, or ":" and a port p (0 for no port).
\* The port of _HOST_PORT_PAT and the range check of parse_url: zeros, then
\* nothing, or "0", or up to five digits, at most 65535
HostPort(host, rest) ==
    LET p == SubSeq(rest, 2, Len(rest)) IN
    IF rest = "" THEN [ok |-> TRUE, host |-> host, port |-> 0]
    ELSE IF /\ AllIn(p, Digits)
            /\ Len(LStripChars(p, Chars("0"))) <= 5
            /\ DecimalValue(p, 0) <= 65535
    THEN [ok |-> TRUE, host |-> host, port |-> DecimalValue(p, 0)]
    ELSE [ok |-> FALSE, host |-> "", port |-> 0]

\* "[" IPv6 "]", close being the place of the first "]"
BracketedHostPort(hp, close) ==
    IF /\ close > 0
       /\ IPv6AddrZ(SubSeq(hp, 2, close - 1), Find(SubSeq(hp, 2, close - 1), "%", 1))
       /\ (close = Len(hp) \/ SubSeq(hp, close + 1, close + 1) = ":")
    THEN HostPort(SubSeq(hp, 1, close), SubSeq(hp, close + 1, Len(hp)))
    ELSE [ok |-> FALSE, host |-> "", port |-> 0]

\* a registered name or an IPv4 address, i being the place of the first ":"
NamedHostPort(hp, i) ==
    IF REG_NAME_PAT(BeforeAt(hp, i))
    THEN HostPort(BeforeAt(hp, i), IF i = 0 THEN "" ELSE SubSeq(hp, i, Len(hp)))
    ELSE [ok |-> FALSE, host |-> "", port |-> 0]

\* _HOST_PORT_RE.match(hp).groups(); ok is FALSE when there is no match
HOST_PORT_RE(hp) ==
    IF StartsWith(hp, "[") THEN BracketedHostPort(hp, Find(hp, "]", 1))
    ELSE NamedHostPort(hp, Find(hp, ":", 1))

NORMALIZABLE_SCHEMES == {"http", "https", ""}

\* _normalize_host
normalize_host(host, scheme) ==
    IF scheme \in NORMALIZABLE_SCHEMES THEN Lower(host) ELSE host

\* prepare_url once parse_url has returned ("" and 0 stand for None)
PreparedUrl(u, scheme, auth, host, port, path, query, fragment) ==
    IF scheme = ""
    THEN Raise("Invalid URL " \o Repr(u) \o ": No scheme supplied. "
               \o "Perhaps you meant https://" \o u \o "?")
    ELSE IF host = ""
    THEN Raise("Invalid URL " \o Repr(u) \o ": No host supplied")
    ELSE IF StartsWith(host, "*") \/ StartsWith(host, ".")
    THEN Raise("URL has an invalid label.")
    ELSE Return(urlunparse(scheme,
                           (IF auth # "" THEN auth \o "@" ELSE "") \o host
                           \o (IF port # 0 THEN ":" \o ToString(port) ELSE ""),
                           IF path = "" THEN "/" ELSE path, "", query, fragment))

\* parse_url on the authority: auth, host and port
PrepareHost(u, scheme, auth, hp, path, query, fragment) ==
    IF ~hp.ok THEN Raise("Failed to parse: " \o u)
    ELSE PreparedUrl(u, scheme, auth, normalize_host(hp.host, scheme), hp.port,
                     path, query, fragment)

\* auth, _, host_port = authority.rpartition("@"), at being the place of the
\* last "@"
PrepareAuthority(u, scheme, authority, at, path, query, fragment) ==
    IF authority = ""
    THEN PreparedUrl(u, scheme, "", "", 0, path, query, fragment)
    ELSE PrepareHost(u, scheme, SubSeq(authority, 1, at - 1),
                     HOST_PORT_RE(SubSeq(authority, at + 1, Len(authority))),
                     path, query, fragment)

\* URI_RE after the authority: the path, the query and the fragment; the
\* path loses its dot segments when the scheme is one to normalize
PrepareRest(u, scheme, authority, rest) ==
    LET path == Before(Before(rest, "#"), "?") IN
    PrepareAuthority(u, scheme, authority, RFind(authority, "@", Len(authority)),
                     IF scheme \in NORMALIZABLE_SCHEMES /\ path # ""
                     THEN remove_path_dot_segments(path) ELSE path,
                     After(Before(rest, "#"), "?"), After(rest, "#"))

\* URI_RE after the scheme: the authority is what follows "//", up to the
\* first of "\", "/", "?" and "#" (at j)
PrepareNetloc(u, scheme, rest, j) ==
    IF StartsWith(rest, "//")
    THEN PrepareRest(u, scheme, SubSeq(rest, 3, j - 1), SubSeq(rest, j, Len(rest)))
    ELSE PrepareRest(u, scheme, "", rest)

\* URI_RE on v: the scheme, lowercased, i being the place of the first ":"
PrepareScheme(u, v, i) ==
    IF HasScheme(v, i)
    THEN PrepareNetloc(u, Lower(SubSeq(v, 1, i - 1)), SubSeq(v, i + 1, Len(v)),
                       FirstOf(SubSeq(v, i + 1, Len(v)), {"\\", "/", "?", "#"}, 3))
    ELSE PrepareNetloc(u, "", v, FirstOf(v, {"\\", "/", "?", "#"}, 3))

\* parse_url(u): if not SCHEME_RE.search(url): url = "//" + url
parse_url(u) ==
    IF HasScheme(u, Find(u, ":", 1)) \/ StartsWith(u, "/")
    THEN PrepareScheme(u, u, Find(u, ":", 1))
    ELSE PrepareScheme(u, "//" \o u, 0)

\* PreparedRequest.prepare_url: the URL loses its leading whitespace; a URL
\* with a ":" that does not start with "http" is left as it is
prepare_url(u) ==
    LET v == LStrip(u) IN
    IF Find(v, ":", 1) > 0 /\ ~StartsWith(Lower(v), "http") THEN Return(v)
    ELSE parse_url(v)

\* Session.get_adapter: only http:// and https:// have a connection adapter
get_adapter(p) ==
    IF StartsWith(Lower(p), "http://") \/ StartsWith(Lower(p), "https://")
    THEN Return(p)
    ELSE Raise("No connection adapters were found for " \o Repr(p))

\* the URL that requests.get(u) sends its first request to, unless it raises
\* before anything is sent: Session.request prepares the URL, then
\* merge_environment_settings parses it with urlparse to look for a proxy
\* (none is configured), which raises ValueError for a bracketed host that
\* is no IP address, then Session.send looks for the adapter
RequestUrl(u) ==
    LET p == prepare_url(u) IN
    IF p.raised THEN p
    ELSE IF urlparse(p.value, "").raised THEN Raise(urlparse(p.value, "").message)
    ELSE get_adapter(p.value)

(***************************************************************************)
(* The environment: the URLs a user types, what the page fetch answers and *)
(* what the Gemini endpoint answers.                                       *)
(***************************************************************************)
UrlInputs ==
    {"", "x.com", "ftp://x.com/a", "https://x.com", "https://x.com/b/c",
     "HTTPS://X.com/b/./c", "http://u@X.com:080/a/../b?#", "https://[x]/",
     "https://.x.com", "httpx://x.com", "ftp://[x]/a",
     "http://[::1.2.3.256]/"}

Script == Element("script", <<TextNode("js")>>)

Nodes ==
    {TextNode(" b\n"), TextNode(" \n"), TextNode("Error:x"),
     Img(""), Img("i.png"), Img(" ../a.png"), Img("//["),
     Script, Element("style", <<TextNode("css")>>),
     Element("div", <<TextNode("c "), ImgNoSrc, Img("/r.png"), Script,
                      Img("HTTP://y.org/z.png?q=1#f")>>)}

PagesUpTo(n) == UNION {[1..k -> Nodes] : k \in 0..n}

\* a request that requests puts on the wire: after is 0 for the request the
\* call starts with, and otherwise the status of the redirect answer
\* (301, 302, 303, 307 or 308) that this request follows
Hop(method, u, after) == [method |-> method, url |-> u, after |-> after]

\* an answer: sent holds the requests that were sent, in order (more than
\* one when redirects were followed); response.url is the URL of the last
Response(code, why, sent, body) ==
    [raised |-> FALSE, message |-> "", status_code |-> code, reason |-> why,
     url |-> sent[Len(sent)].url, sent |-> sent, content |-> body,
     json |-> JsonError("")]

\* an exception of requests, raised after the requests of sent were sent
Failure(m, sent) ==
    [raised |-> TRUE, message |-> m, status_code |-> 0, reason |-> "",
     url |-> "", sent |-> sent, content |-> <<>>, json |-> JsonError("")]

NoResponse == Failure("", <<>>)

\* Session.max_redirects
DEFAULT_REDIRECT_LIMIT == 30

\* the requests of a redirect loop between p and q (p redirects to itself
\* when q = p), each answered by the redirect status code: requests follows
\* DEFAULT_REDIRECT_LIMIT redirects and then raises TooManyRedirects
RedirectLoop(method, p, q, code) ==
    [k \in 1..(DEFAULT_REDIRECT_LIMIT + 1)
        |-> Hop(method, IF k % 2 = 1 THEN p ELSE q, IF k = 1 THEN 0 ELSE code)]

\* the requests of a GET of the prepared URL p that is answered in the end:
\* p alone, p and then the URL a redirect led to, or p twice (p redirected
\* to itself once); requests follows redirects
RedirectChains(p) ==
    {<<Hop("GET", p, 0)>>}
    \cup (IF p = "https://x.com/b/c"
          THEN {<<Hop("GET", p, 0), Hop("GET", "https://x.com/m/n/c", 302)>>,
                <<Hop("GET", p, 0), Hop("GET", p, 307)>>}
          ELSE {})

\* the answers of the network to a GET of the prepared URL p: the exceptions
\* (a connection that fails at once or after a redirect, a redirect loop, a
\* redirect to a URL that no adapter takes) and the responses
Answers(p) ==
    {Failure("Max retries exceeded", <<Hop("GET", p, 0)>>),
     Failure("", <<Hop("GET", p, 0)>>),
     Failure("Max retries exceeded",
             <<Hop("GET", p, 0), Hop("GET", "https://x.com/m/n/c", 301)>>),
     Failure("Exceeded " \o ToString(DEFAULT_REDIRECT_LIMIT) \o " redirects.",
             RedirectLoop("GET", p, p, 302)),
     Failure("Exceeded " \o ToString(DEFAULT_REDIRECT_LIMIT) \o " redirects.",
             RedirectLoop("GET", p, "https://x.com/m/n/c", 302)),
     Failure("No connection adapters were found for 'ftp://x.com/c'",
             <<Hop("GET", p, 0)>>)}
    \cup {Response(404, "Not Found", s, <<>>) : s \in RedirectChains(p)}
    \cup {Response(503, "Service Unavailable", s, <<>>) : s \in RedirectChains(p)}
    \cup {Response(200, "OK", s, b) :
             s \in RedirectChains(p), b \in PagesUpTo(MaxNodes)}
    \cup {Response(300, "Multiple Choices", s, b) :
             s \in RedirectChains(p), b \in PagesUpTo(1)}

\* what requests.get(u, timeout=10) can do: it raises before anything is
\* sent, or the network answers
GetOutcomes(u) ==
    LET p == RequestUrl(u) IN
    IF p.raised THEN {Failure(p.message, <<>>)} ELSE Answers(p.value)

Part(t) == PyDict("text" :> t)
Candidate(parts) == PyDict("content" :> PyDict("parts" :> PyList(parts)))

Candidates ==
    {Candidate(<<Part(PyStr("first"))>>), Candidate(<<Part(PyStr("second"))>>)}

\* a candidate the API blocked: it has no content
Blocked == PyDict("finishReason" :> PyStr("SAFETY"))

CandidateLists == UNION {[1..k -> Candidates] : k \in 0..MaxCandidates}

Bodies ==
    {PyDict("candidates" :> PyList(cs)) : cs \in CandidateLists}
    \cup {PyDict("candidates" :> v) :
             v \in {PyNone, PyInt(0), PyInt(7), PyStr(""), PyStr("zz"),
                    EmptyDict, PyDict("0" :> PyStr("x")),
                    PyList(<<Blocked>>),
                    PyList(<<Blocked, Candidate(<<Part(PyStr("second"))>>)>>),
                    PyList(<<Candidate(<<>>)>>),
                    PyList(<<Candidate(<<EmptyDict>>)>>),
                    PyList(<<Candidate(<<Part(PyInt(5))>>)>>),
                    PyList(<<PyDict("content" :> PyNone)>>),
                    PyList(<<PyStr("first")>>)}}
    \cup {EmptyDict, PyDict("error" :> PyStr("quota")), PyNone, PyInt(5),
          PyStr("x"), PyStr("candidates"), PyList(<<>>),
          PyList(<<PyStr("candidates")>>)}

Reply(code, why, sent, body) ==
    [raised |-> FALSE, message |-> "", status_code |-> code, reason |-> why,
     url |-> sent[Len(sent)].url, sent |-> sent, content |-> <<>>, json |-> body]

\* what requests.post(gemini_url, ..., timeout=30) can do.  requests follows
\* a redirect answer of the endpoint to the URL it names (moved): with a
\* second POST after a 307 or a 308, with a GET after a 301, a 302 or a 303
PostOutcomes ==
    LET post == Hop("POST", gemini_url, 0)
        moved == "https://eu." \o SubSeq(gemini_url, 9, Len(gemini_url))
        first == PyDict("candidates"
                        :> PyList(<<Candidate(<<Part(PyStr("first"))>>)>>))
    IN
    {Failure("Read timed out.", <<post>>), Failure("", <<post>>),
     Failure("Read timed out.", <<post, Hop("POST", moved, 308)>>),
     Failure("Exceeded " \o ToString(DEFAULT_REDIRECT_LIMIT) \o " redirects.",
             RedirectLoop("POST", gemini_url, gemini_url, 307))}
    \cup {Reply(403, "Forbidden", <<post>>, JsonError("")),
          Reply(500, "Internal Server Error", <<post>>, JsonError("")),
          Reply(200, "OK", <<post>>,
                JsonError("Expecting value: line 1 column 1 (char 0)")),
          Reply(300, "Multiple Choices", <<post>>, Return(first)),
          Reply(200, "OK", <<post, Hop("POST", moved, 307)>>, Return(first)),
          Reply(200, "OK", <<post, Hop("GET", moved, 303)>>, Return(first)),
          Reply(405, "Method Not Allowed", <<post, Hop("GET", moved, 302)>>,
                JsonError(""))}
    \cup {Reply(200, "OK", <<post>>, Return(d)) : d \in Bodies}

(***************************************************************************)
(* main (app.py:72-102): one run of the script, with or without a click on *)
(* "Analyze".  screen holds what is rendered under st.button("Analyze").   *)
(***************************************************************************)
Widget(kind, v) == [widget |-> kind, body |-> v]

GetTimeout == 10

\* the request h of requests.get(url, timeout=10)
GetRequest(h) ==
    [method |-> h.method, url |-> h.url, timeout |-> GetTimeout, body |-> "",
     after |-> h.after]

\* a branch that never takes the extraction result for an error
IsErrorText_Never(t) == FALSE

\* text.startswith("Error:")
IsErrorText(t) == StartsWith(t, "Error:")

\* lines 93-97
RECURSIVE ImageWidgets(_)
ImageWidgets(imgs) ==
    IF Len(imgs) = 0 THEN <<>>
    ELSE <<Widget("image", PyStr(Head(imgs)))>> \o ImageWidgets(Tail(imgs))

\* a rendering that shows the raw text before the images
Sections_TextFirst(s, imgs, t) ==
    <<Widget("subheader", PyStr("Summary")), Widget("write", s),
      Widget("subheader", PyStr("Extracted Text")), Widget("write", PyStr(t)),
      Widget("subheader", PyStr("Extracted Images"))>>
    \o (IF Len(imgs) > 0 THEN ImageWidgets(imgs)
        ELSE <<Widget("info", PyStr("No images found."))>>)

\* lines 89-100 (the emoji of the three headings are left out)
Sections(s, imgs, t) ==
    <<Widget("subheader", PyStr("Summary")), Widget("write", s),
      Widget("subheader", PyStr("Extracted Images"))>>
    \o (IF Len(imgs) > 0 THEN ImageWidgets(imgs)
        ELSE <<Widget("info", PyStr("No images found."))>>)
    \o <<Widget("subheader", PyStr("Extracted Text")), Widget("write", PyStr(t))>>

Init ==
    /\ gemini_api_key \in {"", "k"}
    /\ pc = "idle"
    /\ url = ""
    /\ page = NoResponse
    /\ text = ""
    /\ images = <<>>
    /\ reply = NoResponse
    /\ prompt = ""
    /\ summary = PyNone
    /\ calls = <<>>
    /\ net = <<>>
    /\ screen = <<>>

\* a run of main without a click on "Analyze" (the page is loaded, or the
\* field was changed to u): st.button returns False and nothing below line
\* 78 runs
Rerun(u) ==
    /\ pc \in {"idle", "done"}
    /\ url' = u
    /\ page' = NoResponse
    /\ text' = ""
    /\ images' = <<>>
    /\ reply' = NoResponse
    /\ prompt' = ""
    /\ summary' = PyNone
    /\ calls' = <<>>
    /\ net' = <<>>
    /\ screen' = <<>>
    /\ pc' = "idle"
    /\ UNCHANGED gemini_api_key

\* the user types u and clicks "Analyze": a new run starts (lines 76-79, 102)
Analyze(u) ==
    /\ pc \in {"idle", "done"}
    /\ url' = u
    /\ page' = NoResponse
    /\ text' = ""
    /\ images' = <<>>
    /\ reply' = NoResponse
    /\ prompt' = ""
    /\ summary' = PyNone
    /\ calls' = <<>>
    /\ net' = <<>>
    /\ IF u # ""
       THEN pc' = "extract" /\ screen' = <<>>
       ELSE /\ pc' = "done"
            /\ screen' = <<Widget("error", PyStr("Please enter a valid URL."))>>
    /\ UNCHANGED gemini_api_key

\* the assignment of line 81, r being the pair returned for the answer
\* resp, and the requests that requests.get sent: those of resp.sent
Extracting(resp, r) ==
    /\ page' = resp
    /\ text' = r.text
    /\ images' = r.images
    /\ net' = net \o [k \in 1..Len(resp.sent) |-> GetRequest(resp.sent[k])]

\* text, images = extract_content_from_url(url) (line 81)
Extract ==
    /\ pc = "extract"
    /\ \E resp \in GetOutcomes(url) :
          Extracting(resp, extract_content_from_url(url, resp))
    /\ calls' = Append(calls, "extract_content_from_url")
    /\ pc' = "branch"
    /\ UNCHANGED <<gemini_api_key, url, reply, prompt, summary, screen>>

\* if text.startswith("Error:"): st.error(text) (lines 83-84)
ShowError ==
    /\ pc = "branch"
    /\ IsErrorText(text)
    /\ screen' = <<Widget("error", PyStr(text))>>
    /\ pc' = "done"
    /\ UNCHANGED <<gemini_api_key, url, page, text, images, reply, prompt,
                   summary, calls, net>>

\* the assignment of line 87, r being what the call returned and requested
Summarizing(out, r) ==
    /\ summary' = r.value
    /\ net' = net \o r.requests
    /\ reply' = IF Len(r.requests) = 0 THEN NoResponse ELSE out
    /\ prompt' = IF Len(r.requests) = 0 THEN "" ELSE r.requests[1].body

\* summary = call_gemini_api(text, images) (line 87)
Summarize ==
    /\ pc = "branch"
    /\ ~IsErrorText(text)
    /\ \E out \in PostOutcomes :
          Summarizing(out, call_gemini_api(text, images, out))
    /\ calls' = Append(calls, "call_gemini_api")
    /\ pc' = "render"
    /\ UNCHANGED <<gemini_api_key, url, page, text, images, screen>>

\* the three labelled sections (lines 89-100)
Render ==
    /\ pc = "render"
    /\ screen' = Sections(summary, images, text)
    /\ pc' = "done"
    /\ UNCHANGED <<gemini_api_key, url, page, text, images, reply, prompt,
                   summary, calls, net>>

Next ==
    \/ \E u \in UrlInputs : Rerun(u)
    \/ \E u \in UrlInputs : Analyze(u)
    \/ Extract
    \/ ShowError
    \/ Summarize
    \/ Render

Spec == Init /\ [][Next]_vars

(***************************************************************************)
(* Vocabulary of the properties.                                           *)
(***************************************************************************)
\* this run has called extract_content_from_url / call_gemini_api
Extracted == Len(calls) >= 1
Summarized == Len(calls) >= 2

\* the fetch itself raised: requests.get did, or raise_for_status did
FetchRaised == page.raised \/ raise_for_status(page).raised

\* every node of a tree, in document order
RECURSIVE AllNodes(_)
AllNodes(nodes) ==
    IF Len(nodes) = 0 THEN <<>>
    ELSE <<Head(nodes)>> \o AllNodes(Head(nodes).contents) \o AllNodes(Tail(nodes))

\* the img elements of the fetched page that have a non-empty src
SrcImgs ==
    SelectSeq(AllNodes(page.content),
              LAMBDA n : n.name = "img" /\ n.has_src /\ n.src # "")

\* some src of the page cannot be resolved (urljoin raises on it)
SomeRaises(imgs) == \E k \in 1..Len(imgs) : urljoin(url, imgs[k].src).raised
ResolveRaised == SomeRaises(SrcImgs)

\* the extraction of this run returned from the try block
ExtractionSucceeded == Extracted /\ ~FetchRaised /\ ~ResolveRaised

\* extract_content_from_url has just returned (line 81): page, text and
\* images are those of the call and stay as they are until the next run
Returned == pc = "branch"

\* the text nodes outside script and style elements, in document order
RECURSIVE VisibleStrings(_)
VisibleStrings(nodes) ==
    IF Len(nodes) = 0 THEN <<>>
    ELSE LET n == Head(nodes) IN
         (IF n.name = "#text" THEN <<n.string>>
          ELSE IF n.name \in {"script", "style"} THEN <<>>
          ELSE VisibleStrings(n.contents))
         \o VisibleStrings(Tail(nodes))

\* the text nodes inside script and style elements
RECURSIVE HiddenStrings(_, _)
HiddenStrings(nodes, inside) ==
    IF Len(nodes) = 0 THEN <<>>
    ELSE LET n == Head(nodes) IN
         (IF n.name = "#text" THEN (IF inside THEN <<n.string>> ELSE <<>>)
          ELSE HiddenStrings(n.contents, inside \/ n.name \in {"script", "style"}))
         \o HiddenStrings(Tail(nodes), inside)

\* the POST requests of this run, in the order they were sent
Posts == SelectSeq(net, LAMBDA q : q.method = "POST")

\* the requests qs as the library calls list them in their outcome
HopsOf(qs) ==
    [k \in 1..Len(qs) |-> Hop(qs[k].method, qs[k].url, qs[k].after)]

\* the requests that the run issued itself: those that do not follow a
\* redirect answer
Issued == SelectSeq(net, LAMBDA q : q.after = 0)

\* REDIRECT_STATI of requests: the answers that requests follows
RedirectCodes == {301, 302, 303, 307, 308}

\* a POST was issued in this run and answered with a JSON body that
\* raise_for_status let through
Posted == Summarized /\ Len(Posts) >= 1
JsonReply ==
    /\ Posted
    /\ ~reply.raised
    /\ ~raise_for_status(reply).raised
    /\ ~reply.json.raised
Data == reply.json.value

IsDict(v) == v.type = "dict"
Has(v, key) == IsDict(v) /\ key \in DOMAIN v.fields
CandidatesArray(d) == Has(d, "candidates") /\ d.fields["candidates"].type = "list"
CandidatesOf(d) == d.fields["candidates"].items

\* a candidate of the documented shape {"content": {"parts": [{"text": ...}]}}
HasGeneratedText(c) ==
    /\ Has(c, "content")
    /\ Has(c.fields["content"], "parts")
    /\ c.fields["content"].fields["parts"].type = "list"
    /\ Len(c.fields["content"].fields["parts"].items) > 0
    /\ Has(c.fields["content"].fields["parts"].items[1], "text")
GeneratedText(c) == c.fields["content"].fields["parts"].items[1].fields["text"]

ErrorPrefix == "Error: "
GeminiPrefix == "Error calling Gemini API: "
IsGeminiError(v) == v.type = "str" /\ StartsWith(v.str, GeminiPrefix)

(***************************************************************************)
(* C1                                                                      *)
(***************************************************************************)
\* C1 as stated: whenever the page fetch fails, where a failure is a
\* network error, a timeout or any status outside 200..299, the extraction
\* result is "Error: " followed by the message, with an empty image list.
C1_AsStated ==
    (Extracted /\ (page.raised \/ page.status_code \notin 200..299))
        => (StartsWith(text, ErrorPrefix) /\ images = <<>>)

\* C1 amended: whenever the page fetch raises (requests.get raises, or the
\* status is one raise_for_status rejects, 400..599), the extraction result
\* is the text "Error: " followed by the exception's message and the empty
\* image list; and whenever the extraction returns from its except clause,
\* also after some images were collected, the image list is empty (stated
\* where the call returns).
C1_FetchFailure ==
    /\ (Extracted /\ page.raised)
          => (text = ErrorPrefix \o page.message /\ images = <<>>)
    /\ (Extracted /\ ~page.raised /\ page.status_code \in 400..599)
          => /\ text = ErrorPrefix \o raise_for_status(page).message
             /\ StartsWith(text, ErrorPrefix \o ToString(page.status_code))
             /\ images = <<>>
    /\ (Returned /\ ~FetchRaised /\ ResolveRaised)
          => (StartsWith(text, ErrorPrefix) /\ images = <<>>)

\* a fetch that was redirected and answered 404, shown as an error
C1_Witness ==
    /\ pc = "done"
    /\ ~page.raised
    /\ page.status_code = 404
    /\ text = "Error: 404 Client Error: Not Found for url: https://x.com/m/n/c"
    /\ screen = <<Widget("error", PyStr(text))>>

\* the except clause is also reached after an image was collected: the
\* second image of the page cannot be resolved, the first one was
C1_PartialCase ==
    /\ Extracted
    /\ ~FetchRaised
    /\ Len(SrcImgs) = 2
    /\ ~urljoin(url, SrcImgs[1].src).raised
    /\ urljoin(url, SrcImgs[2].src).raised

(***************************************************************************)
(* C2                                                                      *)
(***************************************************************************)
\* C2: with no credential configured, call_gemini_api returns exactly the
\* "key not found" sentence whatever the text and the images are, and the
\* call issues no POST.
C2_NoKeyNoPost ==
    (Summarized /\ gemini_api_key = "")
        => /\ summary = PyStr("Gemini API key not found. "
                              \o "Please check your config.toml file.")
           /\ \A k \in 1..Len(net) : net[k].method # "POST"
           /\ reply = NoResponse

\* the summarizer was called without a credential on a page with text and
\* images
C2_Witness ==
    /\ Summarized
    /\ gemini_api_key = ""
    /\ text # ""
    /\ Len(images) > 0

(***************************************************************************)
(* C3                                                                      *)
(***************************************************************************)
\* C3 as stated: for every JSON body of a successful reply, a non-empty
\* candidates array yields the generated text of its first candidate, and
\* an absent or empty candidates yields "No summary returned from Gemini
\* API.".
C3_AsStated ==
    JsonReply =>
        /\ (CandidatesArray(Data) /\ Len(CandidatesOf(Data)) > 0)
              => /\ HasGeneratedText(CandidatesOf(Data)[1])
                 /\ summary = GeneratedText(CandidatesOf(Data)[1])
        /\ (~Has(Data, "candidates")
            \/ (CandidatesArray(Data) /\ Len(CandidatesOf(Data)) = 0))
              => summary = PyStr(NoSummary)

\* C3 amended: for a reply that raise_for_status lets through and whose
\* JSON body is an object: if candidates is a non-empty array whose first
\* element has the shape content.parts[0].text, the call returns that text
\* (index 0, not a later candidate's); if candidates is absent or an empty
\* array, it returns exactly "No summary returned from Gemini API.".
C3_FirstCandidate ==
    (JsonReply /\ IsDict(Data)) =>
        /\ (/\ CandidatesArray(Data)
            /\ Len(CandidatesOf(Data)) > 0
            /\ HasGeneratedText(CandidatesOf(Data)[1]))
              => summary = GeneratedText(CandidatesOf(Data)[1])
        /\ (~Has(Data, "candidates")
            \/ (CandidatesArray(Data) /\ Len(CandidatesOf(Data)) = 0))
              => summary = PyStr("No summary returned from Gemini API.")

\* a reply with two candidates carrying different texts
C3_Witness ==
    /\ JsonReply
    /\ CandidatesArray(Data)
    /\ Len(CandidatesOf(Data)) = 2
    /\ HasGeneratedText(CandidatesOf(Data)[1])
    /\ HasGeneratedText(CandidatesOf(Data)[2])
    /\ GeneratedText(CandidatesOf(Data)[1]) # GeneratedText(CandidatesOf(Data)[2])
    /\ summary = PyStr("first")

(***************************************************************************)
(* C4                                                                      *)
(***************************************************************************)
\* C4 as stated: a network error, a timeout, any status outside 200..299,
\* a malformed JSON body and a body that is not of the documented shape all
\* end in a returned "Error calling Gemini API: <message>".
C4_AsStated ==
    (Posted /\ (\/ reply.raised
                \/ reply.status_code \notin 200..299
                \/ reply.json.raised
                \/ ~IsDict(Data)))
        => IsGeminiError(summary)

\* C4 amended: every exception raised by the POST or while its reply is
\* read (network error, timeout, a status raise_for_status rejects, i.e.
\* 400..599, a malformed JSON body, or a body on which the lookup of the
\* first candidate's text raises) is caught inside call_gemini_api and
\* returned as the string "Error calling Gemini API: <message>"; the call
\* returns and main goes on to render.
C4_GeminiFailure ==
    Posted =>
        /\ pc \in {"render", "done"}
        /\ reply.raised => summary = PyStr(GeminiPrefix \o reply.message)
        /\ (~reply.raised /\ reply.status_code \in 400..599)
              => /\ summary = PyStr(GeminiPrefix \o raise_for_status(reply).message)
                 /\ StartsWith(summary.str,
                               GeminiPrefix \o ToString(reply.status_code))
        /\ (~reply.raised /\ ~raise_for_status(reply).raised /\ reply.json.raised)
              => summary = PyStr(GeminiPrefix \o reply.json.message)
        /\ (JsonReply /\ Data.type \in {"NoneType", "int"})
              => IsGeminiError(summary)
        /\ (/\ JsonReply
            /\ CandidatesArray(Data)
            /\ Len(CandidatesOf(Data)) > 0
            /\ ~HasGeneratedText(CandidatesOf(Data)[1]))
              => IsGeminiError(summary)

\* a reply whose first candidate carries no content, rendered as a summary
C4_Witness ==
    /\ pc = "done"
    /\ JsonReply
    /\ CandidatesArray(Data)
    /\ Len(CandidatesOf(Data)) > 0
    /\ ~Has(CandidatesOf(Data)[1], "content")
    /\ summary = PyStr("Error calling Gemini API: 'content'")

(***************************************************************************)
(* C5                                                                      *)
(***************************************************************************)
\* C5: a run with a non-empty URL calls the extractor first; when the
\* extracted text starts with the error prefix "Error:" the run shows that
\* text as an error and ends, without calling the summarizer and without
\* rendering a summary, image or text section; otherwise it calls the
\* summarizer exactly once, with the extracted text and images, and then
\* renders the summary, the images and the raw text, in that order.
C5_Flow ==
    /\ (url # "" /\ pc \in {"branch", "render", "done"})
          => calls[1] = "extract_content_from_url"
    /\ pc = "branch" => (Len(calls) = 1 /\ screen = <<>>)
    /\ pc = "render" => (Len(calls) = 2 /\ screen = <<>>)
    /\ (url # "" /\ pc = "done" /\ StartsWith(text, "Error:"))
          => /\ calls = <<"extract_content_from_url">>
             /\ screen = <<Widget("error", PyStr(text))>>
             /\ summary = PyNone
             /\ Len(Posts) = 0
    /\ (url # "" /\ pc = "done" /\ ~StartsWith(text, "Error:"))
          => /\ calls = <<"extract_content_from_url", "call_gemini_api">>
             /\ Posted => /\ Find(prompt, text, 1) > 0
                          /\ \A k \in 1..Len(images) : Find(prompt, images[k], 1) > 0
             /\ LET shown == IF Len(images) > 0 THEN Len(images) ELSE 1 IN
                /\ Len(screen) = shown + 5
                /\ screen[1] = Widget("subheader", PyStr("Summary"))
                /\ screen[2] = Widget("write", summary)
                /\ screen[3] = Widget("subheader", PyStr("Extracted Images"))
                /\ \A k \in 1..Len(images) :
                      screen[3 + k] = Widget("image", PyStr(images[k]))
                /\ Len(images) = 0 => screen[4].widget = "info"
                /\ screen[shown + 4] = Widget("subheader", PyStr("Extracted Text"))
                /\ screen[shown + 5] = Widget("write", PyStr(text))

\* a run that rendered a summary, two images and the text
C5_Witness ==
    /\ pc = "done"
    /\ url # ""
    /\ Len(images) = 2
    /\ Len(screen) = 7
    /\ summary = PyStr("first")

\* a page that was fetched and whose own text starts with "Error:"
C5_ErrorLookingPage ==
    /\ pc = "done"
    /\ ExtractionSucceeded
    /\ StartsWith(text, "Error:")

(***************************************************************************)
(* C6                                                                      *)
(***************************************************************************)
\* the image list is the src of every element of imgs, in their order, each
\* resolved against base
ResolvedAgainst(base, imgs) ==
    /\ Len(images) = Len(imgs)
    /\ \A k \in 1..Len(imgs) : images[k] = urljoin(base, imgs[k].src).value

\* C6 as stated: on a successful extraction every image URL is the src of
\* the img element resolved against the final URL of the request (the URL
\* the response was served from, after redirects).
C6_AsStated == ExtractionSucceeded => ResolvedAgainst(page.url, SrcImgs)

(***************************************************************************)
(* C7                                                                      *)
(***************************************************************************)
\* C7: on a successful extraction the image list has exactly one entry for
\* every img element with a non-empty src, in document order; elements with
\* a missing or empty src add nothing and repeated URLs are kept (stated
\* where the call returns).
C7_OnePerImage ==
    (Returned /\ ExtractionSucceeded) => ResolvedAgainst(url, SrcImgs)

\* a page with the same image twice
C7_Witness ==
    /\ ExtractionSucceeded
    /\ Len(page.content) = 2
    /\ Len(images) = 2
    /\ images[1] = images[2]

\* a page with an img without src, or with an empty one, next to a real one
C7_SkippedCase ==
    /\ ExtractionSucceeded
    /\ Len(images) = 1
    /\ Len(SelectSeq(AllNodes(page.content), LAMBDA n : n.name = "img")) = 2

(***************************************************************************)
(* C8                                                                      *)
(***************************************************************************)
\* C8: the prompt that is sent is the preamble, the whole extracted text,
\* the separator "\n\nImages:\n", the image URLs joined by ", " (the token
\* "None" exactly when there is no image) and the summarize instruction, in
\* this order; with no image it contains "Images:\nNone".
C8_Prompt ==
    Posted =>
        /\ Posts[1].url = gemini_url
        /\ \A k \in 1..Len(Posts) : Posts[k].body = prompt
        /\ prompt = "Web Page Content:\n" \o text \o "\n\nImages:\n"
                    \o (IF Len(images) = 0 THEN "None" ELSE Join(images, ", "))
                    \o "\n\nPlease provide a brief summary of the above content."
        /\ Len(images) = 0 => Find(prompt, "Images:\nNone", 1) > 0

\* a prompt sent for a page with two images
C8_Witness ==
    /\ Posted
    /\ Len(images) = 2
    /\ Find(prompt, images[1] \o ", " \o images[2], 1) > 0

\* a prompt sent for a page without images
C8_NoImageCase == Posted /\ Len(images) = 0 /\ text # ""

(***************************************************************************)
(* C9                                                                      *)
(***************************************************************************)
\* the strings of strs stripped, without those that are empty then
Stripped(strs) ==
    SelectSeq([k \in 1..Len(strs) |-> Strip(strs[k])], LAMBDA x : x # "")

\* no string of strs occurs in t
NoneIn(strs, t) == \A k \in 1..Len(strs) : Find(t, Strip(strs[k]), 1) = 0

\* C9: on a successful extraction the text holds no text from inside a
\* script or style element and is the remaining text nodes, stripped and
\* without the empty ones, joined by single spaces in document order; a
\* page with nothing outside its script elements gives the empty text
\* (stated where the call returns).
C9_VisibleText ==
    (Returned /\ ExtractionSucceeded) =>
        /\ text = Join(Stripped(VisibleStrings(page.content)), " ")
        /\ NoneIn(HiddenStrings(page.content, FALSE), text)
        /\ Len(VisibleStrings(page.content)) = 0 => text = ""

\* a page with a style element, a text node to strip and a nested script
C9_Witness ==
    /\ ExtractionSucceeded
    /\ Len(HiddenStrings(page.content, FALSE)) = 2
    /\ text = "c"

\* a page made of script elements only
C9_ScriptOnlyCase ==
    /\ ExtractionSucceeded
    /\ page.content = <<Script, Script>>
    /\ text = ""

(***************************************************************************)
(* C10                                                                     *)
(***************************************************************************)
\* C10: a run issues at most one page-fetch GET and at most one
\* summarization POST, every other request on the wire being the follow-up
\* of a redirect answer within the one requests.get or the one
\* requests.post call (never a request made again after a failure or an
\* error status); the requests of the run are those of the fetch followed
\* by those of the summarization; the POST is issued only after a fetch that
\* raised nothing and an extraction whose text is no error text; after a
\* fetch that failed nothing more is sent, and nothing after the POST call,
\* failed or not; a run with an empty URL, and a run without a click, send
\* no request.
C10_NoRetry ==
    /\ calls \in {<<>>, <<"extract_content_from_url">>,
                  <<"extract_content_from_url", "call_gemini_api">>}
    /\ HopsOf(net) = page.sent \o reply.sent
    /\ Len(SelectSeq(Issued, LAMBDA q : q.method = "GET")) <= 1
    /\ Len(SelectSeq(Issued, LAMBDA q : q.method = "POST")) <= 1
    /\ \A k \in 1..Len(net) :
          /\ net[k].after # 0 => (k > 1 /\ net[k].after \in RedirectCodes)
          /\ (net[k].after = 0 /\ net[k].method = "GET")
                => (k = 1 /\ net[k].timeout = GetTimeout)
          /\ (net[k].after = 0 /\ net[k].method = "POST")
                => /\ k = Len(page.sent) + 1
                   /\ k > 1
                   /\ Summarized
                   /\ ~FetchRaised
                   /\ ~StartsWith(text, "Error:")
    /\ (Extracted /\ (FetchRaised \/ StartsWith(text, "Error:")))
          => (HopsOf(net) = page.sent /\ Len(Posts) = 0)
    /\ (Summarized /\ reply.raised /\ Len(reply.sent) > 0)
          => net[Len(net)] = PostRequest(reply.sent[Len(reply.sent)], text, images)
    /\ url = "" => Len(net) = 0
    /\ pc \in {"idle", "extract"} => Len(net) = 0

\* a run whose fetch was redirected and whose POST failed: it ended with the
\* two GETs of the fetch and the one POST
C10_Witness ==
    /\ pc = "done"
    /\ Len(page.sent) = 2
    /\ page.url = "https://x.com/m/n/c"
    /\ Len(net) = 3
    /\ reply.raised
    /\ reply.message = "Read timed out."

\* a run whose GET failed on the network
C10_GetFailedCase ==
    pc = "done" /\ page.raised /\ Len(net) = 1 /\ Len(Posts) = 0

\* a run whose GET failed after a redirect was followed
C10_FailedAfterRedirectCase ==
    /\ pc = "done"
    /\ page.raised
    /\ Len(net) = 2
    /\ net[2].after = 301
    /\ screen = <<Widget("error", PyStr("Error: Max retries exceeded"))>>

\* a run whose URL redirects to itself for ever: the same GET is sent again
\* after each redirect answer, then the fetch raises and nothing more is sent
C10_RedirectLoopCase ==
    /\ pc = "done"
    /\ page.raised
    /\ Len(net) = DEFAULT_REDIRECT_LIMIT + 1
    /\ \A k \in 1..Len(net) : net[k].url = net[1].url
    /\ screen = <<Widget("error", PyStr("Error: Exceeded 30 redirects."))>>

\* a run whose POST was redirected and followed with a GET
C10_PostRedirectedCase ==
    /\ pc = "done"
    /\ ~reply.raised
    /\ Len(reply.sent) = 2
    /\ net[Len(net)].method = "GET"
    /\ net[Len(net)].after = 303
    /\ summary = PyStr("first")

\* a run whose URL requests rejected before sending anything
C10_NothingSentCase ==
    /\ pc = "done"
    /\ url # ""
    /\ page.raised
    /\ Len(net) = 0
    /\ screen = <<Widget("error", PyStr("Error: URL has an invalid label."))>>
====
